---- MODULE Spec2Model ----
(***************************************************************************)
(* Model of kafka/record/memory_records.py: the MemoryRecords reader that  *)
(* scans a byte buffer for record batches, and the MemoryRecordsBuilder    *)
(* writer that accumulates records through a batch encoder.                *)
(***************************************************************************)
EXTENDS Integers, Sequences, FiniteSets, TLC

\* ------------------------------------------------------------------------
\* Bounds of the model
\* ------------------------------------------------------------------------
\* Largest number of chunks a buffer is assembled from.
MaxChunks == 3

\* ------------------------------------------------------------------------
\* Program constants
\* ------------------------------------------------------------------------
\* struct.calcsize(">q")
LENGTH_OFFSET == 8
\* struct.calcsize(">qi")
LOG_OVERHEAD == 12
\* struct.calcsize(">qii")
MAGIC_OFFSET == 16
\* LegacyRecordBatch.RECORD_OVERHEAD_V0 = calcsize(">Ibbii"), imported
RECORD_OVERHEAD_V0 == 14
\* Minimum space requirements for Record V0
MIN_SLICE == LOG_OVERHEAD + RECORD_OVERHEAD_V0

\* Python's None, and a value that is not None
NONE == << >>
Some(v) == << v >>

\* ------------------------------------------------------------------------
\* Bytes and the struct module
\* ------------------------------------------------------------------------
Byte == 0..255

Max(a, b) == IF a >= b THEN a ELSE b
Min(a, b) == IF a <= b THEN a ELSE b

Zeros(n) == [i \in 1..n |-> 0]

\* struct.pack(">i", v): two's complement, big endian
PackInt32(v) ==
    << (v \div 16777216) % 256, (v \div 65536) % 256, (v \div 256) % 256, v % 256 >>

\* The offset struct.unpack_from really reads at, or BadOffset when it raises
\* struct.error: a negative offset counts from the end of the buffer.
BadOffset == -1

UnpackOffset(n, offset, size) ==
    IF offset < 0
    THEN IF offset + size > 0 \/ offset + n < 0 THEN BadOffset ELSE offset + n
    ELSE IF n - offset < size THEN BadOffset ELSE offset

\* struct.unpack_from(">i", buf, offset), offset already resolved (0-based)
UnpackInt32(buf, offset) ==
    LET b0 == buf[offset + 1]
        hi == IF b0 >= 128 THEN b0 - 256 ELSE b0
    IN  hi * 16777216 + buf[offset + 2] * 65536 + buf[offset + 3] * 256 + buf[offset + 4]

\* (a variant that reads the byte unsigned, as ">B" would)
UnpackInt8_Unsigned(buf, offset) == buf[offset + 1]

\* struct.unpack_from(">b", buf, offset): one signed byte
UnpackInt8(buf, offset) ==
    LET b == buf[offset + 1] IN IF b >= 128 THEN b - 256 ELSE b

\* Python slice bounds of seq[a:b] on a sequence of length n
SliceIndex(i, n) == IF i < 0 THEN Max(i + n, 0) ELSE Min(i, n)

\* memoryview(buffer)[a:b] as the window [start, end) it denotes
MemoryViewSlice(n, a, b) ==
    LET s == SliceIndex(a, n)
        e == SliceIndex(b, n)
    IN  [start |-> s, end |-> Max(s, e)]

SliceLen(sl) == sl.end - sl.start

\* ------------------------------------------------------------------------
\* Buffers the reader is built over
\* ------------------------------------------------------------------------
\* A chunk is a 12-byte header (8 offset bytes, the length field) followed by
\* `body` bytes of which the fifth (buffer offset 16) is the magic byte, or
\* with hdr = FALSE just `body` raw bytes.
Chunk(hdr, len, m, body) == [hdr |-> hdr, len |-> len, magic |-> m, body |-> body]

ChunkBytes(c) ==
    LET bodyBytes == [i \in 1..c.body |-> IF i = 5 THEN c.magic ELSE 0]
    IN  IF c.hdr THEN Zeros(8) \o PackInt32(c.len) \o bodyBytes ELSE bodyBytes

ValidChunks ==
    { Chunk(TRUE, 14, 0, 14), Chunk(TRUE, 15, 1, 15), Chunk(TRUE, 14, 2, 14) }

\* complete batches shorter than MIN_SLICE
CorruptChunks == { Chunk(TRUE, 13, 0, 13), Chunk(TRUE, 0, 0, 0) }

\* a header whose length field points past the bytes that follow it
TruncatedChunks == { Chunk(TRUE, 14, 0, 3), Chunk(TRUE, 100, 0, 0) }

\* fewer than LOG_OVERHEAD raw bytes
ShortChunks == { Chunk(FALSE, 0, 0, 5) }

\* headers whose signed length field is negative, and a magic byte >= 128
OddChunks == { Chunk(TRUE, -12, 0, 0), Chunk(TRUE, -33, 0, 0), Chunk(TRUE, 14, 255, 14) }

ChunkKinds == ValidChunks \cup CorruptChunks \cup TruncatedChunks \cup ShortChunks \cup OddChunks

ChunkSeqs == UNION { [1..k -> ChunkKinds] : k \in 0..MaxChunks }

RECURSIVE Flatten(_)
Flatten(cs) == IF cs = << >> THEN << >> ELSE ChunkBytes(Head(cs)) \o Flatten(Tail(cs))

\* ------------------------------------------------------------------------
\* State
\* ------------------------------------------------------------------------
VARIABLES
    \* MemoryRecords
    chunks,           \* what the buffer was assembled from
    buffer,           \* _buffer
    pos,              \* _pos
    next_slice,       \* _next_slice: NONE or Some([start, end])
    remaining_bytes,  \* _remaining_bytes: NONE or Some(n)
    rpc,              \* "idle", or "hung" inside a scan that never ends
    returned,         \* the batches next_batch() has returned so far
    \* MemoryRecordsBuilder
    wpc,              \* "new", "live", or "failed" when __init__ raised
    args,             \* the arguments __init__ was called with
    builder,          \* _builder: NONE or Some(encoder)
    batch_size,       \* _batch_size
    w_buffer,         \* _buffer: NONE or Some(bytes)
    next_offset,      \* _next_offset
    closed,           \* _closed
    magic,            \* _magic
    bytes_written,    \* _bytes_written
    producer_id,      \* _producer_id: NONE or Some(id)
    producer_epoch,   \* _producer_epoch: Some(epoch), NONE while never assigned
    encoders,         \* how many encoders have been instantiated
    builds,           \* how many times an encoder's build() has run
    enc_used,         \* the encoder methods the last public call invoked
    appended,         \* how many append() calls returned metadata
    skipped,          \* how many offsets skip() calls have skipped
    \* the last public call and what it returned or raised
    op,
    ret,
    \* a second MemoryRecords over the same buffer
    other,            \* the reader the caller is not using now, NONE if there is none
    solo              \* the reader in use as it would be had it run alone

rvars == << chunks, buffer, pos, next_slice, remaining_bytes, rpc, returned >>
wfields == << builder, batch_size, w_buffer, next_offset, closed, magic,
              bytes_written, producer_id, producer_epoch >>
wghost == << encoders, builds, appended, skipped >>
wvars == << wpc, args, wfields, wghost, enc_used >>
peers == << other, solo >>
vars == << rvars, wvars, op, ret, peers >>

Returns(v) == [exc |-> "", val |-> v]
Raises(e) == [exc |-> e, val |-> NONE]

\* ------------------------------------------------------------------------
\* MemoryRecords
\* ------------------------------------------------------------------------
Cursor(p, ns, rb) == [pos |-> p, next_slice |-> ns, remaining_bytes |-> rb, raised |-> FALSE]

\* (a variant that leaves the header out of the batch size)
SliceEnd_NoOverhead(p, length) == p + length

SliceEnd(p, length) == p + LOG_OVERHEAD + length

\* The two tests of _cache_next for a buffer that ends inside a batch
TooFewBytes(remaining) == remaining < LOG_OVERHEAD
\* (a variant that trusts the length field)
PastEnd_Never(slice_end, buffer_len) == FALSE

PastEnd(slice_end, buffer_len) == slice_end > buffer_len

\* (a variant that forgets to clear the lookahead)
Exhausted_KeepSlice(cur, remaining) == Cursor(cur.pos, cur.next_slice, Some(remaining))

\* The end of the scan: the leftover is recorded and the lookahead cleared
Exhausted(cur, remaining) == Cursor(cur.pos, NONE, Some(remaining))

\* _cache_next on the cursor cur of a reader over buf; raised is set when
\* struct.unpack_from raises struct.error, which leaves the cursor as it was.
CacheNext(buf, cur) ==
    LET buffer_len == Len(buf)
        remaining == buffer_len - cur.pos
        offset == UnpackOffset(buffer_len, cur.pos + LENGTH_OFFSET, 4)
        slice_end == SliceEnd(cur.pos, UnpackInt32(buf, offset))
    IN  IF TooFewBytes(remaining)
        THEN Exhausted(cur, remaining)
        ELSE IF offset = BadOffset
        THEN [cur EXCEPT !.raised = TRUE]
        ELSE IF PastEnd(slice_end, buffer_len)
        THEN Exhausted(cur, remaining)
        ELSE Cursor(slice_end,
                    Some(MemoryViewSlice(buffer_len, cur.pos, slice_end)),
                    cur.remaining_bytes)

\* The loop of valid_bytes: _cache_next until _remaining_bytes is set. The
\* step depends on the position alone, so the loop never ends exactly when a
\* position comes back; hung marks that outcome.
RECURSIVE ScanToEnd(_, _, _)
ScanToEnd(buf, cur, visited) ==
    IF cur.raised \/ cur.remaining_bytes # NONE
    THEN [cur |-> cur, hung |-> FALSE]
    ELSE IF cur.pos \in visited
    THEN [cur |-> cur, hung |-> TRUE]
    ELSE ScanToEnd(buf, CacheNext(buf, cur), visited \cup {cur.pos})

\* The decoder next_batch wraps the slice in
Decoder(m, slice) ==
    IF m <= 1
    THEN [decoder |-> "LegacyRecordBatch", magic |-> Some(m),
          start |-> slice.start, end |-> slice.end]
    ELSE [decoder |-> "DefaultRecordBatch", magic |-> NONE,
          start |-> slice.start, end |-> slice.end]

TooShort(slice) == SliceLen(slice) < MIN_SLICE

Here == Cursor(pos, next_slice, remaining_bytes)

\* One reader only
NoPeer ==
    /\ other = NONE
    /\ solo = NONE

\* No writer exists in the runs of the reader
NoWriter ==
    /\ wpc = "none"
    /\ args = NONE
    /\ builder = NONE
    /\ batch_size = 0
    /\ w_buffer = NONE
    /\ next_offset = 0
    /\ closed = FALSE
    /\ magic = 0
    /\ bytes_written = 0
    /\ producer_id = NONE
    /\ producer_epoch = NONE
    /\ encoders = 0
    /\ builds = 0
    /\ enc_used = {}
    /\ appended = 0
    /\ skipped = 0

\* MemoryRecords(buffer) over the bytes of one of the chunk sequences seqs
ReaderOver(seqs) ==
    /\ chunks \in seqs
    /\ buffer = Flatten(chunks)
    /\ LET c == CacheNext(buffer, Cursor(0, NONE, NONE))
       IN  /\ pos = c.pos
           /\ next_slice = c.next_slice
           /\ remaining_bytes = c.remaining_bytes
    /\ rpc = "idle"
    /\ returned = << >>
    /\ op = "__init__"
    /\ ret = Returns(NONE)
    /\ NoWriter

InitReader == ReaderOver(ChunkSeqs) /\ NoPeer

Records_size_in_bytes ==
    /\ rpc = "idle"
    /\ op' = "size_in_bytes"
    /\ ret' = Returns(Some(Len(buffer)))
    /\ UNCHANGED << rvars, wvars, peers >>

\* The body of has_next
HasNextBody ==
    /\ op' = "has_next"
    /\ ret' = Returns(Some(next_slice # NONE))
    /\ UNCHANGED << rvars, wvars >>

Records_has_next ==
    /\ rpc = "idle"
    /\ HasNextBody
    /\ UNCHANGED peers

\* The body of next_batch, the call being named o
NextBatchBody(o) ==
    /\ op' = o
    /\ IF next_slice = NONE
       THEN /\ ret' = Returns(NONE)
            /\ UNCHANGED << rvars, wvars >>
       ELSE IF TooShort(next_slice[1])
       THEN /\ ret' = Raises("CorruptRecordError")
            /\ UNCHANGED << rvars, wvars >>
       ELSE LET c == CacheNext(buffer, Here)
                m == UnpackInt8(buffer, next_slice[1].start + MAGIC_OFFSET)
                batch == Decoder(m, next_slice[1])
            IN  IF c.raised
                THEN /\ ret' = Raises("struct.error")
                     /\ UNCHANGED << rvars, wvars >>
                ELSE /\ pos' = c.pos
                     /\ next_slice' = c.next_slice
                     /\ remaining_bytes' = c.remaining_bytes
                     /\ returned' = Append(returned, batch)
                     /\ ret' = Returns(Some(batch))
                     /\ UNCHANGED << chunks, buffer, rpc, wvars >>

Records_next_batch ==
    /\ rpc = "idle"
    /\ NextBatchBody("next_batch")
    /\ UNCHANGED peers

\* __next__
Records_next ==
    /\ rpc = "idle"
    /\ IF next_slice = NONE
       THEN /\ op' = "__next__"
            /\ ret' = Raises("StopIteration")
            /\ UNCHANGED << rvars, wvars >>
       ELSE NextBatchBody("__next__")
    /\ UNCHANGED peers

\* What valid_bytes returns once the leftover count is known
ValidCount(buffer_len, remaining) == buffer_len - remaining

\* The body of valid_bytes
ValidBytesBody ==
    /\ op' = "valid_bytes"
    /\ IF remaining_bytes # NONE
       THEN /\ ret' = Returns(Some(ValidCount(Len(buffer), remaining_bytes[1])))
            /\ UNCHANGED << rvars, wvars >>
       ELSE LET scan == ScanToEnd(buffer, Here, {})
            IN  IF scan.hung
                THEN \* the call never returns
                     /\ rpc' = "hung"
                     /\ pos' = scan.cur.pos
                     /\ next_slice' = scan.cur.next_slice
                     /\ ret' = ret
                     /\ UNCHANGED << chunks, buffer, remaining_bytes, returned, wvars >>
                ELSE IF scan.cur.raised
                THEN \* struct.error leaves the loop before the reset
                     /\ pos' = scan.cur.pos
                     /\ next_slice' = scan.cur.next_slice
                     /\ ret' = Raises("struct.error")
                     /\ UNCHANGED << chunks, buffer, remaining_bytes, rpc, returned, wvars >>
                ELSE \* Reset previous iterator position
                     /\ remaining_bytes' = scan.cur.remaining_bytes
                     /\ ret' = Returns(Some(ValidCount(Len(buffer), scan.cur.remaining_bytes[1])))
                     /\ UNCHANGED << chunks, buffer, pos, next_slice, rpc, returned, wvars >>

Records_valid_bytes ==
    /\ rpc = "idle"
    /\ ValidBytesBody
    /\ UNCHANGED peers

NextReader ==
    \/ Records_size_in_bytes
    \/ Records_has_next
    \/ Records_next_batch
    \/ Records_next
    \/ Records_valid_bytes

SpecReader == InitReader /\ [][NextReader]_vars

\* Buffers for the version dispatch: one batch with every value of the magic
\* byte, alone or behind a valid batch
MagicChunkSeqs ==
    { << Chunk(TRUE, 14, b, 14) >> : b \in Byte }
        \cup { << Chunk(TRUE, 14, 2, 14), Chunk(TRUE, 15, b, 15) >> : b \in Byte }

InitDispatch == ReaderOver(MagicChunkSeqs) /\ NoPeer

SpecDispatch == InitDispatch /\ [][NextReader]_vars

\* ------------------------------------------------------------------------
\* Two MemoryRecords over one buffer. The caller uses one reader at a time;
\* the fields of the reader not in use wait in other. Next to each reader
\* runs a copy that is given the same calls on a buffer of its own.
\* ------------------------------------------------------------------------
MaxSharedChunks == 2

SharedChunkSeqs == UNION { [1..k -> ChunkKinds] : k \in 0..MaxSharedChunks }

\* One call o on a reader s = [cur, hung, returned, ret] that runs alone over buf
SoloCall(buf, s, o) ==
    IF o = "has_next"
    THEN [s EXCEPT !.ret = Returns(Some(s.cur.next_slice # NONE))]
    ELSE IF o = "next_batch"
    THEN IF s.cur.next_slice = NONE
         THEN [s EXCEPT !.ret = Returns(NONE)]
         ELSE IF TooShort(s.cur.next_slice[1])
         THEN [s EXCEPT !.ret = Raises("CorruptRecordError")]
         ELSE LET c == CacheNext(buf, s.cur)
                  m == UnpackInt8(buf, s.cur.next_slice[1].start + MAGIC_OFFSET)
                  batch == Decoder(m, s.cur.next_slice[1])
              IN  IF c.raised
                  THEN [s EXCEPT !.ret = Raises("struct.error")]
                  ELSE [cur |-> c, hung |-> FALSE,
                        returned |-> Append(s.returned, batch),
                        ret |-> Returns(Some(batch))]
    ELSE IF s.cur.remaining_bytes # NONE
    THEN [s EXCEPT !.ret = Returns(Some(ValidCount(Len(buf), s.cur.remaining_bytes[1])))]
    ELSE LET scan == ScanToEnd(buf, s.cur, {})
         IN  IF scan.hung
             THEN [s EXCEPT !.hung = TRUE,
                            !.cur = Cursor(scan.cur.pos, scan.cur.next_slice,
                                           s.cur.remaining_bytes)]
             ELSE IF scan.cur.raised
             THEN [s EXCEPT !.ret = Raises("struct.error"),
                            !.cur = Cursor(scan.cur.pos, scan.cur.next_slice,
                                           s.cur.remaining_bytes)]
             ELSE [s EXCEPT !.ret = Returns(Some(ValidCount(Len(buf),
                                                            scan.cur.remaining_bytes[1]))),
                            !.cur = Cursor(s.cur.pos, s.cur.next_slice,
                                           scan.cur.remaining_bytes)]

\* A reader just constructed over buf
NewReader(buf) ==
    [cur |-> CacheNext(buf, Cursor(0, NONE, NONE)), hung |-> FALSE,
     returned |-> << >>, ret |-> Returns(NONE)]

InitShared ==
    /\ ReaderOver(SharedChunkSeqs)
    /\ solo = Some(NewReader(Flatten(chunks)))
    /\ other = Some([cur |-> CacheNext(Flatten(chunks), Cursor(0, NONE, NONE)),
                     rpc |-> "idle", returned |-> << >>,
                     op |-> "__init__", ret |-> Returns(NONE),
                     solo |-> NewReader(Flatten(chunks))])

\* The reader in use is called; the copy that runs alone gets the same call
Alone(o) ==
    /\ solo' = Some(SoloCall(buffer, solo[1], o))
    /\ other' = other

Shared_has_next ==
    /\ rpc = "idle"
    /\ HasNextBody
    /\ Alone("has_next")

Shared_next_batch ==
    /\ rpc = "idle"
    /\ NextBatchBody("next_batch")
    /\ Alone("next_batch")

Shared_valid_bytes ==
    /\ rpc = "idle"
    /\ ValidBytesBody
    /\ Alone("valid_bytes")

\* (a variant in which the position is one attribute of the class, shared by
\* the two readers)
Shared_switch_ClassPos ==
    /\ next_slice' = other[1].cur.next_slice
    /\ remaining_bytes' = other[1].cur.remaining_bytes
    /\ rpc' = other[1].rpc
    /\ returned' = other[1].returned
    /\ op' = other[1].op
    /\ ret' = other[1].ret
    /\ solo' = Some(other[1].solo)
    /\ other' = Some([cur |-> Here, rpc |-> rpc, returned |-> returned,
                      op |-> op, ret |-> ret, solo |-> solo[1]])
    /\ UNCHANGED << chunks, buffer, pos, wvars >>

\* The caller turns to the other reader: each reader keeps its cursor in its
\* own slots, and both refer to the one buffer
Shared_switch ==
    /\ pos' = other[1].cur.pos
    /\ next_slice' = other[1].cur.next_slice
    /\ remaining_bytes' = other[1].cur.remaining_bytes
    /\ rpc' = other[1].rpc
    /\ returned' = other[1].returned
    /\ op' = other[1].op
    /\ ret' = other[1].ret
    /\ solo' = Some(other[1].solo)
    /\ other' = Some([cur |-> Here, rpc |-> rpc, returned |-> returned,
                      op |-> op, ret |-> ret, solo |-> solo[1]])
    /\ UNCHANGED << chunks, buffer, wvars >>

NextShared ==
    \/ Shared_has_next
    \/ Shared_next_batch
    \/ Shared_valid_bytes
    \/ Shared_switch

SpecShared == InitShared /\ [][NextShared]_vars

\* ------------------------------------------------------------------------
\* The batch encoder the writer drives (LegacyRecordBatchBuilder,
\* DefaultRecordBatchBuilder): a stand-in with the interface the writer calls
\* ------------------------------------------------------------------------
\* Size of an encoder that holds no record yet
EncoderHeader(kind) == IF kind = "DefaultRecordBatchBuilder" THEN 61 ELSE 0

NewEncoder(kind, a) ==
    [kind |-> kind, magic |-> a.magic, compression_type |-> a.compression_type,
     batch_size |-> a.batch_size, is_transactional |-> a.transactional,
     producer_id |-> a.producer_id, producer_epoch |-> a.producer_epoch,
     base_sequence |-> a.base_sequence,
     size |-> EncoderHeader(kind), records |-> << >>]

\* encoder.size()
EncSize(enc) == enc.size

\* encoder.append(offset, ...) of a record that encodes to n bytes: the
\* metadata, or NONE when the record does not fit
EncFits(enc, n) == enc.records = << >> \/ enc.size + n <= enc.batch_size

EncMetadata(enc, offset, n) ==
    IF EncFits(enc, n) THEN Some([offset |-> offset, size |-> n]) ELSE NONE

EncAppend(enc, offset, n) ==
    IF EncFits(enc, n)
    THEN [enc EXCEPT !.size = @ + n, !.records = Append(@, [offset |-> offset, size |-> n])]
    ELSE enc

\* encoder.set_producer_state(...): the encoder keeps the producer state valid
EncStateOk(pid, epoch, seq, trans) ==
    /\ ~trans \/ pid # -1
    /\ pid = -1 \/ epoch >= 0
    /\ pid = -1 \/ seq >= 0

EncSetProducerState(enc, pid, epoch, seq, trans) ==
    [enc EXCEPT !.producer_id = pid, !.producer_epoch = epoch,
                !.base_sequence = seq, !.is_transactional = trans]

\* encoder.build(): the finished bytes. Without compression a legacy encoder
\* emits one message per record and a default encoder one batch; with
\* compression the payload shrinks to half and is wrapped in one batch.
CompressedLen(n) == (n + 1) \div 2

RECURSIVE LegacyMessages(_, _)
LegacyMessages(m, recs) ==
    IF recs = << >> THEN << >>
    ELSE ChunkBytes(Chunk(TRUE, Head(recs).size - LOG_OVERHEAD, m,
                          Head(recs).size - LOG_OVERHEAD))
         \o LegacyMessages(m, Tail(recs))

EncBuild(enc) ==
    LET hdr == EncoderHeader(enc.kind)
        payload == enc.size - hdr
        body == IF enc.kind = "DefaultRecordBatchBuilder"
                THEN (hdr - LOG_OVERHEAD) +
                     (IF enc.compression_type = 0 THEN payload ELSE CompressedLen(payload))
                ELSE RECORD_OVERHEAD_V0 + CompressedLen(payload)
    IN  IF enc.kind = "LegacyRecordBatchBuilder" /\ enc.compression_type = 0
        THEN LegacyMessages(enc.magic, enc.records)
        ELSE IF enc.kind = "LegacyRecordBatchBuilder" /\ enc.records = << >>
        THEN << >>
        ELSE ChunkBytes(Chunk(TRUE, body, enc.magic, body))

\* ------------------------------------------------------------------------
\* MemoryRecordsBuilder
\* ------------------------------------------------------------------------
\* Bounds and inputs
\* Most offsets the skip() calls of a run skip in total
MaxSkipped == 2
Magics == 0..3
CompressionTypes == {0, 1, 5}
BatchSizes == {60, 100}
Offsets == {0, 7}
ProducerIds == {-1, 9}
ProducerEpochs == {-1, 4}
BaseSequences == {-1, 0}
RecordSizes == {26, 30}
SkipSizes == {2}

CtorArgs ==
    [magic : Magics, compression_type : CompressionTypes, batch_size : BatchSizes,
     offset : Offsets, transactional : BOOLEAN, producer_id : ProducerIds,
     producer_epoch : ProducerEpochs, base_sequence : BaseSequences]

\* The asserts of __init__
MagicSupported(a) == a.magic \in {0, 1, 2}
CompressionValid(a) == a.compression_type \in {0, 1, 2, 3, 4}
DefaultArgsOk(a) ==
    /\ ~a.transactional \/ a.producer_id # -1
    /\ a.producer_id = -1 \/ a.producer_epoch # -1
    /\ a.producer_id = -1 \/ a.base_sequence # -1
\* (a variant that lets a legacy writer take a producer id)
LegacyArgsOk_NoProducerCheck(a) == ~a.transactional

LegacyArgsOk(a) == ~a.transactional /\ a.producer_id = -1

CtorOk(a) ==
    /\ MagicSupported(a)
    /\ CompressionValid(a)
    /\ IF a.magic >= 2 THEN DefaultArgsOk(a) ELSE LegacyArgsOk(a)

\* No reader exists in the runs of the writer
NoReader ==
    /\ chunks = << >>
    /\ buffer = << >>
    /\ pos = 0
    /\ next_slice = NONE
    /\ remaining_bytes = NONE
    /\ rpc = "none"
    /\ returned = << >>

InitWriter ==
    /\ NoReader
    /\ NoPeer
    /\ wpc = "new"
    /\ args = NONE
    /\ builder = NONE
    /\ batch_size = 0
    /\ w_buffer = NONE
    /\ next_offset = 0
    /\ closed = FALSE
    /\ magic = 0
    /\ bytes_written = 0
    /\ producer_id = NONE
    /\ producer_epoch = NONE
    /\ encoders = 0
    /\ builds = 0
    /\ enc_used = {}
    /\ appended = 0
    /\ skipped = 0
    /\ op = "new"
    /\ ret = Returns(NONE)

Builder_init ==
    /\ wpc = "new"
    /\ \E a \in CtorArgs :
        /\ args' = Some(a)
        /\ op' = "__init__"
        /\ enc_used' = {}
        /\ IF ~CtorOk(a)
           THEN /\ wpc' = "failed"
                /\ ret' = Raises("AssertionError")
                /\ UNCHANGED << wfields, wghost, rvars, peers >>
           ELSE /\ wpc' = "live"
                /\ ret' = Returns(NONE)
                /\ builder' = Some(NewEncoder(IF a.magic >= 2
                                              THEN "DefaultRecordBatchBuilder"
                                              ELSE "LegacyRecordBatchBuilder", a))
                /\ encoders' = encoders + 1
                /\ producer_id' = IF a.magic >= 2 THEN Some(a.producer_id) ELSE NONE
                /\ producer_epoch' = IF a.magic >= 2 THEN Some(a.producer_epoch) ELSE NONE
                /\ batch_size' = a.batch_size
                /\ w_buffer' = NONE
                /\ next_offset' = a.offset
                /\ closed' = FALSE
                /\ magic' = a.magic
                /\ bytes_written' = 0
                /\ UNCHANGED << builds, appended, skipped, rvars, peers >>

Builder_skip ==
    /\ wpc = "live"
    /\ \E offsets_to_skip \in SkipSizes :
        /\ skipped + offsets_to_skip <= MaxSkipped
        /\ next_offset' = next_offset + offsets_to_skip
        /\ skipped' = skipped + offsets_to_skip
    /\ op' = "skip"
    /\ ret' = Returns(NONE)
    /\ enc_used' = {}
    /\ UNCHANGED << wpc, args, builder, batch_size, w_buffer, closed, magic,
                    bytes_written, producer_id, producer_epoch,
                    encoders, builds, appended, rvars, peers >>

\* (a variant that counts refused records too)
NextOffsetAfter_Always(offset, metadata) == offset + 1

\* What append does to _next_offset when the encoder returned metadata
NextOffsetAfter(offset, metadata) == IF metadata = NONE THEN offset ELSE offset + 1

\* (a variant without the closed test)
AppendRefused_Never(c) == FALSE

\* Whether append returns None at once
AppendRefused(c) == c

\* A call on the released encoder: 'NoneType' object has no attribute ...
NoEncoder ==
    /\ ret' = Raises("AttributeError")
    /\ enc_used' = {}
    /\ UNCHANGED << wpc, args, wfields, wghost, rvars, peers >>

Builder_append ==
    /\ wpc = "live"
    /\ op' = "append"
    /\ \E n \in RecordSizes :
        IF AppendRefused(closed)
        THEN /\ ret' = Returns(NONE)
             /\ enc_used' = {}
             /\ UNCHANGED << wpc, args, wfields, wghost, rvars, peers >>
        ELSE IF builder = NONE
        THEN NoEncoder
        ELSE LET offset == next_offset
                 metadata == EncMetadata(builder[1], offset, n)
             IN  /\ builder' = Some(EncAppend(builder[1], offset, n))
                 /\ enc_used' = {"append"}
                 /\ next_offset' = NextOffsetAfter(offset, metadata)
                 /\ appended' = IF metadata = NONE THEN appended ELSE appended + 1
                 /\ ret' = Returns(metadata)
                 /\ UNCHANGED << wpc, args, batch_size, w_buffer, closed, magic,
                                 bytes_written, producer_id, producer_epoch,
                                 encoders, builds, skipped, rvars, peers >>

\* (a variant that tests the closed flag before the magic)
ProducerStateError_ClosedFirst(m, c) ==
    IF c THEN "IllegalStateError"
    ELSE IF m < 2 THEN "UnsupportedVersionError"
    ELSE ""

\* The check set_producer_state makes before it touches the encoder
ProducerStateError(m, c) ==
    IF m < 2 THEN "UnsupportedVersionError"
    ELSE IF c THEN "IllegalStateError"
    ELSE ""

Builder_set_producer_state ==
    /\ wpc = "live"
    /\ op' = "set_producer_state"
    /\ \E pid \in ProducerIds, epoch \in ProducerEpochs,
          seq \in BaseSequences, trans \in BOOLEAN :
        IF ProducerStateError(magic, closed) # ""
        THEN /\ ret' = Raises(ProducerStateError(magic, closed))
             /\ enc_used' = {}
             /\ UNCHANGED << wpc, args, wfields, wghost, rvars, peers >>
        ELSE IF builder = NONE
        THEN NoEncoder
        ELSE IF ~EncStateOk(pid, epoch, seq, trans)
        THEN \* the encoder raises before the writer records anything
             /\ ret' = Raises("AssertionError")
             /\ enc_used' = {"set_producer_state"}
             /\ UNCHANGED << wpc, args, wfields, wghost, rvars, peers >>
        ELSE /\ builder' = Some(EncSetProducerState(builder[1], pid, epoch, seq, trans))
             /\ enc_used' = {"set_producer_state"}
             /\ producer_id' = Some(pid)
             /\ ret' = Returns(NONE)
             /\ UNCHANGED << wpc, args, batch_size, w_buffer, next_offset, closed,
                             magic, bytes_written, producer_epoch, wghost, rvars, peers >>

\* (a variant that finalizes on every call)
Finalizes_Always(c) == TRUE

\* Whether close finalizes the encoder
Finalizes(c) == ~c

\* (a variant that never reads the producer state back)
CapturesProducerState_Never(m) == FALSE

\* Whether close takes the producer id and epoch over from the encoder
CapturesProducerState(m) == m = 2

Builder_close ==
    /\ wpc = "live"
    /\ op' = "close"
    /\ IF Finalizes(closed) /\ builder = NONE
       THEN NoEncoder
       ELSE /\ ret' = Returns(NONE)
            /\ closed' = TRUE
            /\ IF Finalizes(closed)
               THEN /\ bytes_written' = EncSize(builder[1])
                    /\ w_buffer' = Some(EncBuild(builder[1]))
                    /\ builds' = builds + 1
                    /\ enc_used' = {"size", "build"}
                    /\ IF CapturesProducerState(magic)
                       THEN /\ producer_id' = Some(builder[1].producer_id)
                            /\ producer_epoch' = Some(builder[1].producer_epoch)
                       ELSE UNCHANGED << producer_id, producer_epoch >>
                    /\ builder' = NONE
               ELSE /\ enc_used' = {}
                    /\ UNCHANGED << bytes_written, w_buffer, builds, producer_id,
                                    producer_epoch, builder >>
            /\ UNCHANGED << wpc, args, batch_size, next_offset, magic, encoders,
                            appended, skipped, rvars, peers >>

\* The operations that only read the writer: call o invoking the encoder
\* methods used and giving result r
Query(o, used, r) ==
    /\ wpc = "live"
    /\ op' = o
    /\ enc_used' = used
    /\ ret' = r
    /\ UNCHANGED << wpc, args, wfields, wghost, rvars, peers >>

SizeInBytes == IF ~closed THEN EncSize(builder[1]) ELSE Len(w_buffer[1])

Builder_size_in_bytes ==
    Query("size_in_bytes", IF ~closed THEN {"size"} ELSE {}, Returns(Some(SizeInBytes)))

\* the quotient as the pair << numerator, denominator >>
Builder_compression_rate ==
    Query("compression_rate", {},
          IF ~closed THEN Raises("AssertionError")
          ELSE IF bytes_written = 0 THEN Raises("ZeroDivisionError")
          ELSE Returns(Some(<< SizeInBytes, bytes_written >>)))

\* (a variant that is full only above the limit)
Full_Strict(size, limit) == size > limit

\* Whether an encoder of this size has reached the batch size
Full(size, limit) == size >= limit

Builder_is_full ==
    Query("is_full", IF closed THEN {} ELSE {"size"},
          Returns(Some(IF closed THEN TRUE ELSE Full(EncSize(builder[1]), batch_size))))

Builder_next_offset == Query("next_offset", {}, Returns(Some(next_offset)))

Builder_buffer ==
    Query("buffer", {}, IF ~closed THEN Raises("AssertionError") ELSE Returns(w_buffer))

\* (a variant without the assertion: an Open writer hands its unset buffer to
\* the reader, whose constructor fails on it)
Builder_records_NoAssert ==
    Query("records", {},
          IF ~closed THEN Raises("TypeError")
          ELSE Returns(Some([buffer |-> w_buffer[1],
                             cursor |-> CacheNext(w_buffer[1], Cursor(0, NONE, NONE))])))

\* records(): the reader it returns, as its buffer and its primed cursor
Builder_records ==
    Query("records", {},
          IF ~closed THEN Raises("AssertionError")
          ELSE Returns(Some([buffer |-> w_buffer[1],
                             cursor |-> CacheNext(w_buffer[1], Cursor(0, NONE, NONE))])))

Builder_producer_id == Query("producer_id", {}, Returns(producer_id))

\* the slot is never assigned on a legacy writer
Builder_producer_epoch ==
    Query("producer_epoch", {},
          IF producer_epoch = NONE THEN Raises("AttributeError")
          ELSE Returns(producer_epoch))

NextWriter ==
    \/ Builder_init
    \/ Builder_skip
    \/ Builder_append
    \/ Builder_set_producer_state
    \/ Builder_close
    \/ Builder_size_in_bytes
    \/ Builder_compression_rate
    \/ Builder_is_full
    \/ Builder_next_offset
    \/ Builder_buffer
    \/ Builder_records
    \/ Builder_producer_id
    \/ Builder_producer_epoch

SpecWriter == InitWriter /\ [][NextWriter]_vars

\* ------------------------------------------------------------------------
\* Properties of MemoryRecords
\* ------------------------------------------------------------------------
\* Where the i-th chunk of the buffer starts, and its bounds as a batch
RECURSIVE ChunkStart(_)
ChunkStart(i) == IF i <= 1 THEN 0 ELSE ChunkStart(i - 1) + Len(ChunkBytes(chunks[i - 1]))

BatchBounds(i) ==
    [start |-> ChunkStart(i), end |-> ChunkStart(i) + LOG_OVERHEAD + chunks[i].len]

Bounds(b) == [start |-> b.start, end |-> b.end]

\* The reader has returned the first batches of the buffer, in order and with
\* their exact bounds, n of them at most; has_next() tells whether one of the
\* n is left; next_batch() never raised and returned None only after the n-th.
YieldsBatches(n) ==
    /\ rpc = "idle"
    /\ Len(returned) <= n
    /\ \A i \in 1..Len(returned) : Bounds(returned[i]) = BatchBounds(i)
    /\ (next_slice # NONE) <=> (Len(returned) < n)
    /\ op = "has_next" => ret = Returns(Some(Len(returned) < n))
    /\ op \in {"next_batch", "__next__"} =>
         \/ Len(returned) = n /\ ret = (IF op = "next_batch" THEN Returns(NONE)
                                        ELSE Raises("StopIteration"))
         \/ Len(returned) >= 1 /\ ret = Returns(Some(returned[Len(returned)]))

AllValid(cs) == \A i \in 1..Len(cs) : cs[i] \in ValidChunks

\* C1: over a buffer that is the concatenation of N valid batches the reader
\* returns exactly those N batches from N next_batch() calls, in order and
\* with their exact bounds, has_next() is true before each of the N calls and
\* false after the N-th, and valid_bytes() equals size_in_bytes().
C1_ValidBufferYieldsAll ==
    AllValid(chunks) =>
        /\ YieldsBatches(Len(chunks))
        /\ op = "size_in_bytes" => ret = Returns(Some(Len(buffer)))
        /\ op = "valid_bytes" => ret = Returns(Some(Len(buffer)))

C1_Witness ==
    /\ AllValid(chunks)
    /\ Len(chunks) >= 2
    /\ chunks[1].magic # chunks[2].magic
    /\ Len(returned) = Len(chunks)
    /\ op = "valid_bytes"

\* A buffer of valid batches followed by a truncated tail
ValidThenTail(cs) ==
    /\ Len(cs) >= 1
    /\ AllValid(SubSeq(cs, 1, Len(cs) - 1))
    /\ cs[Len(cs)] \in TruncatedChunks \cup ShortChunks

TailBytes == Len(ChunkBytes(chunks[Len(chunks)]))

\* C2: when N valid batches are followed by a tail shorter than 12 bytes or by
\* a header whose length field points past the end of the buffer, the reader
\* yields the same N batches, then has_next() is false and next_batch()
\* returns None without raising, and size_in_bytes() - valid_bytes() is the
\* number of tail bytes.
C2_TruncatedTailIsNoError ==
    ValidThenTail(chunks) =>
        /\ YieldsBatches(Len(chunks) - 1)
        /\ ret.exc \in {"", "StopIteration"}
        /\ op = "size_in_bytes" => ret = Returns(Some(Len(buffer)))
        /\ op = "valid_bytes" => ret = Returns(Some(Len(buffer) - TailBytes))

C2_Witness ==
    /\ ValidThenTail(chunks)
    /\ Len(chunks) >= 2
    /\ chunks[Len(chunks)] \in TruncatedChunks
    /\ Len(returned) = Len(chunks) - 1
    /\ op = "valid_bytes"
    /\ ret = Returns(Some(Len(buffer) - TailBytes))

Corrupt == next_slice # NONE /\ TooShort(next_slice[1])

\* C3: while the cached lookahead is a complete batch shorter than MIN_SLICE,
\* next_batch() raises CorruptRecordError and does not advance the cursor, and
\* the reader stays there: every later next_batch() raises the same error and
\* no further batch is returned. (A call that never returns has no later call.)
C3_CorruptNeverSkipped ==
    [][Corrupt /\ rpc' = "idle" =>
        /\ Corrupt'
        /\ returned' = returned
        /\ op' \in {"next_batch", "__next__"} =>
              /\ ret' = Raises("CorruptRecordError")
              /\ pos' = pos
              /\ next_slice' = next_slice]_vars

\* C5: valid_bytes(), called at any point of an iteration, leaves the cursor
\* position and the cached lookahead exactly as they were, so that the
\* next_batch() calls return the batches they would have returned without it.
\* (Stated of the calls that come back to the caller.)
C5_ValidBytesUndisturbed ==
    [][op' = "valid_bytes" /\ rpc' = "idle" =>
        /\ pos' = pos
        /\ next_slice' = next_slice
        /\ returned' = returned]_vars

ExactlyOne == (next_slice # NONE) # (remaining_bytes # NONE)

C12_ScanTerminates == rpc # "hung"

\* The byte at offset 16 of the i-th batch handed out
MagicByte(i) == buffer[returned[i].start + MAGIC_OFFSET + 1]

\* C13 (as claimed): the decoder of a batch depends only on the byte at offset
\* 16 of the batch: the values 0 and 1 select the Legacy decoder, constructed
\* with that value as its magic, and every value 2..255 selects the Default
\* decoder.
C13_DispatchOnByte ==
    \A i \in 1..Len(returned) :
        IF MagicByte(i) \in {0, 1}
        THEN /\ returned[i].decoder = "LegacyRecordBatch"
             /\ returned[i].magic = Some(MagicByte(i))
        ELSE returned[i].decoder = "DefaultRecordBatch"

\* C13 (amended): the byte at offset 16 is read as a signed 8-bit integer; the
\* values up to 1 (the bytes 0, 1 and 128..255) select the Legacy decoder,
\* constructed with the signed value as its magic, and the values 2..127 select
\* the Default decoder.
C13_DispatchOnSignedByte ==
    \A i \in 1..Len(returned) :
        IF MagicByte(i) \in {0, 1} \cup 128..255
        THEN /\ returned[i].decoder = "LegacyRecordBatch"
             /\ returned[i].magic =
                    Some(IF MagicByte(i) \in {0, 1} THEN MagicByte(i) ELSE MagicByte(i) - 256)
        ELSE returned[i].decoder = "DefaultRecordBatch"

C13_Witness ==
    /\ Len(returned) = 2
    /\ MagicByte(2) = 128
    /\ returned[2].decoder = "LegacyRecordBatch"
    /\ returned[2].magic = Some(-128)
    /\ returned[2].start = 26

\* C16: two readers over one buffer do not interfere. Under every
\* interleaving of their has_next, next_batch and valid_bytes calls each
\* reader is where it would be, has returned the batches it would have
\* returned and gets the result it would get had it been given the same calls
\* alone; the buffer is never modified.
C16_NoInterference ==
    /\ buffer = Flatten(chunks)
    /\ Here = solo[1].cur
    /\ (rpc = "hung") = solo[1].hung
    /\ returned = solo[1].returned
    /\ ret = solo[1].ret
    /\ other[1].cur = other[1].solo.cur
    /\ (other[1].rpc = "hung") = other[1].solo.hung
    /\ other[1].returned = other[1].solo.returned
    /\ other[1].ret = other[1].solo.ret

C16_Witness ==
    /\ AllValid(chunks)
    /\ Len(chunks) = 2
    /\ Len(returned) = 2
    /\ next_slice = NONE
    /\ op = "valid_bytes"
    /\ Len(other[1].returned) = 1
    /\ other[1].cur.remaining_bytes # NONE
    /\ other[1].cur.next_slice # NONE
    /\ other[1].op = "next_batch"

\* The scan of a valid_bytes() call made right after construction
ScanFromStart == ScanToEnd(buffer, CacheNext(buffer, Cursor(0, NONE, NONE)), {})

RECURSIVE SumOfLengths(_)
SumOfLengths(batches) ==
    IF batches = << >> THEN 0
    ELSE (batches[1].end - batches[1].start) + SumOfLengths(Tail(batches))

\* C17: valid_bytes() is a constant of a reader's buffer: whatever
\* next_batch() calls came before, a call that returns gives the value a call
\* right after construction gives, which is the size of the buffer minus the
\* leftover trailing bytes; once has_next() is false that value is the sum of
\* the lengths of the batches returned.
C17_ValidBytesConstant ==
    rpc = "idle" /\ op = "valid_bytes" /\ ret.exc = "" =>
        /\ ~ScanFromStart.hung
        /\ ~ScanFromStart.cur.raised
        /\ ret.val = Some(Len(buffer) - ScanFromStart.cur.remaining_bytes[1])
        /\ remaining_bytes # NONE
        /\ ret.val = Some(Len(buffer) - remaining_bytes[1])
        /\ next_slice = NONE => ret.val = Some(SumOfLengths(returned))

\* C18: for every buffer content the cursor stays inside [0, len(buffer)],
\* and every lookahead view is a non-empty window [start, end) with
\* end <= len(buffer) that starts where the view before it ended (at 0 for the
\* first) and ends at the cursor.
C18_ForwardInBounds ==
    rpc = "idle" =>
        /\ 0 <= pos
        /\ pos <= Len(buffer)
        /\ next_slice # NONE =>
            /\ next_slice[1].start < next_slice[1].end
            /\ next_slice[1].end <= Len(buffer)
            /\ next_slice[1].end = pos
            /\ next_slice[1].start =
                   IF returned = << >> THEN 0 ELSE returned[Len(returned)].end

\* ------------------------------------------------------------------------
\* Properties of MemoryRecordsBuilder
\* ------------------------------------------------------------------------
Finalized == << w_buffer, bytes_written, producer_id, producer_epoch >>

\* C4: close() is idempotent: build() and the capture of size() run exactly
\* once, at the first close(); every later close() returns normally, touches
\* no encoder, and leaves the buffer, bytes written, producer id and producer
\* epoch as the first close() left them.
C4_CloseIdempotent ==
    [][/\ op' = "close" => ret' = Returns(NONE) /\ closed' /\ builds' = 1
       /\ closed => builds' = builds /\ Finalized' = Finalized
       /\ closed /\ op' = "close" => enc_used' = {}]_vars

C4_Witness ==
    /\ closed
    /\ op = "close"
    /\ enc_used = {}
    /\ builds = 1
    /\ appended >= 1
    /\ args[1].compression_type # 0

\* C6: set_producer_state raises UnsupportedVersionError on every writer with
\* magic < 2, Open or Closed, and IllegalStateError on every Closed magic-2
\* writer; in both cases the encoder is not invoked and the producer id,
\* producer epoch, buffer, next offset and closed flag stay as they were.
C6_SetProducerStateRejected ==
    [][op' = "set_producer_state" /\ (magic < 2 \/ closed) =>
        /\ ret' = Raises(IF magic < 2 THEN "UnsupportedVersionError"
                         ELSE "IllegalStateError")
        /\ enc_used' = {}
        /\ UNCHANGED << producer_id, producer_epoch, w_buffer, next_offset,
                        closed, builder >>]_vars

C6_Witness ==
    /\ op = "set_producer_state"
    /\ ret = Raises("UnsupportedVersionError")
    /\ closed
    /\ magic < 2
    /\ appended >= 1

\* C7: Closed is terminal and rejects mutation: a closed writer stays closed,
\* append() returns None without invoking the encoder, and no append,
\* set_producer_state or close call changes the finalized buffer, the next
\* offset, bytes written, the producer id or the producer epoch.
C7_ClosedIsTerminal ==
    [][closed =>
        /\ closed'
        /\ op' = "append" => ret' = Returns(NONE) /\ enc_used' = {}
        /\ op' \in {"append", "set_producer_state", "close"} =>
             UNCHANGED << w_buffer, next_offset, bytes_written, producer_id,
                          producer_epoch >>]_vars

C7_Witness ==
    /\ closed
    /\ op = "append"
    /\ ret = Returns(NONE)
    /\ appended >= 1
    /\ w_buffer # Some(<< >>)

start_offset == args[1].offset

\* C8: offsets are assigned densely: append() hands the encoder the current
\* next offset, a successful append moves next_offset() up by exactly one and
\* an append that returns None leaves it alone, so next_offset() is the start
\* offset plus the number of successful appends (plus what skip() skipped, 0
\* when skip is never called), and the last successful append got the offset
\* before it.
C8_DenseOffsets ==
    wpc = "live" =>
        /\ next_offset = start_offset + appended + skipped
        /\ op = "append" /\ ret.val # NONE =>
             /\ ret.val[1].offset = next_offset - 1
             /\ skipped = 0 => ret.val[1].offset = start_offset + appended - 1
        /\ builder # NONE =>
             /\ Len(builder[1].records) = appended
             /\ skipped = 0 =>
                  \A i \in 1..appended : builder[1].records[i].offset = start_offset + i - 1

C8_Witness ==
    /\ wpc = "live"
    /\ ~closed
    /\ skipped = 0
    /\ start_offset = 7
    /\ appended = 2
    /\ op = "append"
    /\ ret = Returns(NONE)
    /\ next_offset = 9

\* The failures of construction the claim lists
ListedFailure(a) ==
    \/ /\ a.magic = 2
       /\ \/ a.transactional /\ a.producer_id = -1
          \/ a.producer_id # -1 /\ (a.producer_epoch = -1 \/ a.base_sequence = -1)
    \/ /\ a.magic \in {0, 1}
       /\ a.transactional \/ a.producer_id # -1

\* C9: construction fails, before any encoder is instantiated, for magic 2
\* when transactional without a producer id or when a producer id comes
\* without epoch or base sequence, and for magic 0 or 1 when transactional or
\* given a producer id; every other combination of valid magic and
\* compression type yields an Open writer whose next offset is the start
\* offset.
C9_EagerValidation ==
    op = "__init__" =>
        /\ wpc \in {"failed", "live"}
        /\ wpc = "failed" => encoders = 0 /\ ret.exc # ""
        /\ args[1].magic \in {0, 1, 2} /\ args[1].compression_type \in 0..4 =>
             /\ ListedFailure(args[1]) <=> wpc = "failed"
             /\ ~ListedFailure(args[1]) =>
                  /\ wpc = "live"
                  /\ ret = Returns(NONE)
                  /\ ~closed
                  /\ encoders = 1
                  /\ builder # NONE
                  /\ next_offset = args[1].offset

C9_Witness ==
    /\ op = "__init__"
    /\ wpc = "failed"
    /\ args[1].magic = 2
    /\ args[1].compression_type = 1
    /\ args[1].producer_id = 9
    /\ args[1].producer_epoch = 4
    /\ args[1].base_sequence = -1

\* C10: in every state of a magic-2 writer, as its producer_id and
\* producer_epoch properties show it: if the producer id is set (# -1) then
\* the producer epoch is set (# -1), and if the writer is transactional then
\* the producer id is set.
C10_ProducerStateInvariant ==
    wpc = "live" /\ magic = 2 =>
        /\ producer_id # Some(-1) => producer_epoch # Some(-1)
        /\ builder # NONE /\ builder[1].is_transactional => producer_id # Some(-1)

\* C14: on every Closed writer compression_rate() returns the ratio of
\* len(buffer) to the size the encoder reported before build(), a writer
\* closed with no record appended included; on an Open writer it fails its
\* assertion. (A query changes no field of the writer.)
C14_CompressionRateDefined ==
    op = "compression_rate" =>
        IF closed
        THEN ret = Returns(Some(<< Len(w_buffer[1]), bytes_written >>)) /\ bytes_written # 0
        ELSE ret = Raises("AssertionError")

\* A reader as records() hands it out: primed from offset 0 of buf
FreshReaderOver(r, buf) ==
    /\ r.buffer = buf
    /\ ~r.cursor.raised
    /\ IF r.cursor.next_slice = NONE
       THEN r.cursor.pos = 0 /\ r.cursor.remaining_bytes = Some(Len(buf))
       ELSE /\ r.cursor.next_slice[1].start = 0
            /\ r.cursor.next_slice[1].end = r.cursor.pos
            /\ r.cursor.remaining_bytes = NONE

\* C15: on an Open writer records() and buffer() fail their assertion and
\* change nothing; the buffer of a Closed writer is what the one build() call
\* of close() returned and never changes; buffer() returns it and every
\* records() returns a fresh reader over it, primed from offset 0, whatever
\* was returned before.
C15_ClosedOnly ==
    [][/\ op' \in {"records", "buffer"} /\ ~closed =>
            ret' = Raises("AssertionError") /\ UNCHANGED wfields
       /\ ~closed /\ closed' => w_buffer' = Some(EncBuild(builder[1])) /\ builds' = 1
       /\ closed => w_buffer' = w_buffer /\ builds' = builds
       /\ op' = "buffer" /\ closed => ret' = Returns(w_buffer) /\ UNCHANGED wfields
       /\ op' = "records" /\ closed =>
            /\ ret'.exc = ""
            /\ FreshReaderOver(ret'.val[1], w_buffer[1])
            /\ UNCHANGED wfields
            /\ op = "records" => ret' = ret]_vars

C15_Witness ==
    /\ closed
    /\ op = "records"
    /\ ret.exc = ""
    /\ ret.val[1].buffer = w_buffer[1]
    /\ ret.val[1].cursor.next_slice # NONE
    /\ ret.val[1].cursor.next_slice[1].end < Len(w_buffer[1])
    /\ appended = 2

\* C19: the first close() of a magic-2 writer sets the writer's producer id
\* and epoch to those held by the encoder when it is built, whatever the
\* writer recorded before; a writer of magic 0 or 1 has no producer id and no
\* producer epoch in any state, close() included.
C19_CloseCapturesProducerState ==
    [][/\ op' = "close" /\ ~closed /\ wpc = "live" /\ magic = 2 =>
            /\ producer_id' = Some(builder[1].producer_id)
            /\ producer_epoch' = Some(builder[1].producer_epoch)
       /\ wpc' = "live" /\ magic' < 2 =>
            /\ producer_id' = NONE
            /\ producer_epoch' = NONE]_vars

C19_Witness ==
    /\ op = "close"
    /\ closed
    /\ magic = 2
    /\ args[1].producer_epoch = -1
    /\ producer_id = Some(9)
    /\ producer_epoch = Some(4)

\* C20: the encoder released by close() is never used again: on a Closed
\* writer no public operation calls a method of the encoder or fails on its
\* absence. While the writer is Open size_in_bytes() and is_full() are
\* answered by the live encoder, is_full() being true iff its size has reached
\* the batch size; once Closed size_in_bytes() is len(buffer) and is_full()
\* is true.
C20_ReleasedEncoderUnused ==
    [][wpc = "live" =>
        /\ closed =>
            /\ builder = NONE
            /\ enc_used' = {}
            /\ ret'.exc # "AttributeError" \/ op' = "producer_epoch"
        /\ op' = "size_in_bytes" =>
            IF closed
            THEN ret' = Returns(Some(Len(w_buffer[1])))
            ELSE ret' = Returns(Some(builder[1].size)) /\ enc_used' = {"size"}
        /\ op' = "is_full" =>
            IF closed
            THEN ret' = Returns(Some(TRUE))
            ELSE /\ ret' = Returns(Some(builder[1].size >= batch_size))
                 /\ enc_used' = {"size"}]_vars

C20_Witness ==
    /\ closed
    /\ op = "is_full"
    /\ ret = Returns(Some(TRUE))
    /\ builder = NONE
    /\ enc_used = {}
    /\ appended = 1
    /\ Len(w_buffer[1]) < batch_size

====
